---- MODULE Spec2Model ----
(***************************************************************************)
(* Model of the screen-translation overlay (src/OCR_Translate.py):         *)
(* two draggable/resizable boxes owned by the Overlay widget, the pointer  *)
(* event routing of the widget, the capture -> OCR -> translate thread and *)
(* its queued hand-off of results to the UI thread, and closeEvent.        *)
(***************************************************************************)
EXTENDS Integers, Sequences, FiniteSets, TLC

(***************************************************************************)
(* Bounds of the model.                                                    *)
(***************************************************************************)
\* number of pointer events (press, move, release) the UI thread receives
MaxEvents == 4
\* number of loop iterations the capture thread starts
MaxIters == 2

(***************************************************************************)
(* Program constants.                                                      *)
(***************************************************************************)
resize_margin == 10
MinWidth == 100
MinHeight == 50

\* Primary screen sizes the program is started on (QScreen.geometry()).
Screens == { <<1920, 1080>>, <<2560, 1440>> }

\* Pointer positions, in widget coordinates (the widget covers the screen).
Pt(px, py) == [x |-> px, y |-> py]
Points ==
  { Pt(150, 150), Pt(395, 295), Pt(450, 150), Pt(715, 295), Pt(1000, 600),
    Pt(1919, 1079), Pt(-250, -250), Pt(2600, 1500) }

(***************************************************************************)
(* QRect: left, top, width, height; right() and bottom() are the last      *)
(* pixel column/row, left + width - 1 and top + height - 1.                *)
(***************************************************************************)
QRect(l, t, w, h) == [x |-> l, y |-> t, w |-> w, h |-> h]
right(r) == r.x + r.w - 1
bottom(r) == r.y + r.h - 1

Max(a, b) == IF a >= b THEN a ELSE b
Min(a, b) == IF a <= b THEN a ELSE b
Abs(a) == IF a >= 0 THEN a ELSE -a

\* QRect.contains(QPoint): edges included; a rectangle whose right edge lies
\* more than one pixel left of its left edge is read with the edges swapped.
contains(r, p) ==
  LET l == IF right(r) < r.x - 1 THEN right(r) ELSE r.x
      rr == IF right(r) < r.x - 1 THEN r.x ELSE right(r)
      t == IF bottom(r) < r.y - 1 THEN bottom(r) ELSE r.y
      b == IF bottom(r) < r.y - 1 THEN r.y ELSE bottom(r)
  IN  /\ p.x >= l /\ p.x <= rr
      /\ p.y >= t /\ p.y <= b

default_selection_rect == QRect(100, 100, 300, 200)
default_translation_rect == QRect(420, 100, 300, 200)

(***************************************************************************)
(* Strings are sequences of one-character strings.  str(int), int(str) and *)
(* str.split(",") as Python computes them.                                 *)
(***************************************************************************)
Digits == <<"0", "1", "2", "3", "4", "5", "6", "7", "8", "9">>

RECURSIVE NatToStr(_)
NatToStr(n) ==
  IF n < 10 THEN <<Digits[n + 1]>>
  ELSE Append(NatToStr(n \div 10), Digits[(n % 10) + 1])

IntToStr(n) == IF n < 0 THEN <<"-">> \o NatToStr(-n) ELSE NatToStr(n)

IsDigit(c) == \E i \in 1..10 : Digits[i] = c
DigitVal(c) == (CHOOSE i \in 1..10 : Digits[i] = c) - 1
IsSpace(c) == c \in {" ", "\n", "\t", "\r", "\f"}

RECURSIVE lstrip(_)
lstrip(s) == IF s # <<>> /\ IsSpace(Head(s)) THEN lstrip(Tail(s)) ELSE s

RECURSIVE rstrip(_)
rstrip(s) ==
  IF s # <<>> /\ IsSpace(s[Len(s)]) THEN rstrip(SubSeq(s, 1, Len(s) - 1)) ELSE s

\* str.strip()
strip(s) == rstrip(lstrip(s))

RECURSIVE DigitsToNat(_)
DigitsToNat(s) ==
  IF s = <<>> THEN 0
  ELSE 10 * DigitsToNat(SubSeq(s, 1, Len(s) - 1)) + DigitVal(s[Len(s)])

\* int(s) accepts surrounding whitespace, one optional sign and decimal digits;
\* anything else raises ValueError.
IntBody(s) == IF s # <<>> /\ Head(s) \in {"-", "+"} THEN Tail(s) ELSE s
IsIntStr(s) ==
  LET b == IntBody(strip(s))
  IN  b # <<>> /\ \A i \in 1..Len(b) : IsDigit(b[i])
StrToInt(s) ==
  LET t == strip(s)
      v == DigitsToNat(IntBody(t))
  IN  IF t # <<>> /\ Head(t) = "-" THEN -v ELSE v

\* s.split(","): the fields between the commas, empty fields kept.
RECURSIVE SplitFrom(_, _)
SplitFrom(s, cur) ==
  IF s = <<>> THEN <<cur>>
  ELSE IF Head(s) = "," THEN <<cur>> \o SplitFrom(Tail(s), <<>>)
  ELSE SplitFrom(Tail(s), Append(cur, Head(s)))
split(s) == SplitFrom(s, <<>>)

\* f"{left},{top},{width},{height}" of closeEvent
FormatGeometry_Swapped(r) ==
  IntToStr(r.x) \o <<",">> \o IntToStr(r.y) \o <<",">> \o
  IntToStr(r.h) \o <<",">> \o IntToStr(r.w)

FormatGeometry(r) ==
  IntToStr(r.x) \o <<",">> \o IntToStr(r.y) \o <<",">> \o
  IntToStr(r.w) \o <<",">> \o IntToStr(r.h)

\* QSettings.value(key, None): a stored string, or nothing stored.
NoValue == [present |-> FALSE, text |-> <<>>]
Stored(s) == [present |-> TRUE, text |-> s]

\* init_ui, one box: the stored "left,top,width,height" parsed with
\* map(int, data.split(",")) and unpacked into four names, else the default.
\* ok is FALSE where the unpacking or int() raises ValueError.
LoadGeometry(data, default_rect) ==
  IF ~data.present THEN [ok |-> TRUE, rect |-> default_rect]
  ELSE LET f == split(data.text)
       IN  IF Len(f) = 4 /\ \A i \in 1..4 : IsIntStr(f[i])
           THEN [ok |-> TRUE,
                 rect |-> QRect(StrToInt(f[1]), StrToInt(f[2]),
                                StrToInt(f[3]), StrToInt(f[4]))]
           ELSE [ok |-> FALSE, rect |-> default_rect]

(***************************************************************************)
(* DraggableResizableBox                                                   *)
(***************************************************************************)
\* __init__: not dragging, not resizing, drag_start = QPoint()
NewBox(initial_rect) ==
  [rect |-> initial_rect, dragging |-> FALSE, resizing |-> FALSE,
   drag_start |-> Pt(0, 0)]

\* the test of mouse_press_event for the resize corner
InResizeCorner(r, p) ==
  /\ Abs(p.x - right(r)) < resize_margin
  /\ Abs(p.y - bottom(r)) < resize_margin

mouse_press_event_DragFirst(box, p) ==
  IF contains(box.rect, p)
  THEN [box EXCEPT !.dragging = TRUE, !.drag_start = p]
  ELSE box

mouse_press_event(box, p) ==
  IF contains(box.rect, p)
  THEN IF InResizeCorner(box.rect, p)
       THEN [box EXCEPT !.resizing = TRUE, !.drag_start = p]
       ELSE [box EXCEPT !.dragging = TRUE, !.drag_start = p]
  ELSE box

\* the dragging branch of mouse_move_event
drag_move_NoLowerClamp(box, p, sw, sh) ==
  LET new_x == Min(box.rect.x + (p.x - box.drag_start.x), sw - box.rect.w)
      new_y == Min(box.rect.y + (p.y - box.drag_start.y), sh - box.rect.h)
  IN  [box EXCEPT !.rect.x = new_x, !.rect.y = new_y, !.drag_start = p]

drag_move(box, p, sw, sh) ==
  LET new_x == Max(0, Min(box.rect.x + (p.x - box.drag_start.x),
                          sw - box.rect.w))
      new_y == Max(0, Min(box.rect.y + (p.y - box.drag_start.y),
                          sh - box.rect.h))
  IN  [box EXCEPT !.rect.x = new_x, !.rect.y = new_y, !.drag_start = p]

\* the resizing branch of mouse_move_event
resize_move(box, p, sw, sh) ==
  LET new_width == Min(Max(box.rect.w + (p.x - box.drag_start.x), MinWidth),
                       sw - box.rect.x)
      new_height == Min(Max(box.rect.h + (p.y - box.drag_start.y), MinHeight),
                        sh - box.rect.y)
  IN  [box EXCEPT !.rect.w = new_width, !.rect.h = new_height,
                  !.drag_start = p]

\* mouse_move_event: the new box and the value returned
mouse_move_event(box, p, sw, sh) ==
  IF box.dragging THEN [box |-> drag_move(box, p, sw, sh), consumed |-> TRUE]
  ELSE IF box.resizing
       THEN [box |-> resize_move(box, p, sw, sh), consumed |-> TRUE]
       ELSE [box |-> box, consumed |-> FALSE]

mouse_release_event_DraggingOnly(box) == [box EXCEPT !.dragging = FALSE]

mouse_release_event(box) == [box EXCEPT !.dragging = FALSE, !.resizing = FALSE]

contains_point(box, p) == contains(box.rect, p)

Idle(box) == ~box.dragging /\ ~box.resizing

\* the Rectangle invariant of the data model, on a screen sw x sh
RectInv(r, sw, sh) ==
  /\ r.w >= MinWidth /\ r.h >= MinHeight
  /\ r.x >= 0 /\ r.y >= 0
  /\ r.x + r.w <= sw /\ r.y + r.h <= sh

(***************************************************************************)
(* Inputs of the model.                                                    *)
(***************************************************************************)
\* Geometries an earlier run of the program can have saved in closeEvent: a
\* box of that run satisfies the Rectangle invariant on the screen of that
\* run, and every such rectangle is reached by resizing and dragging.
SampleRects == { QRect(1825, 1035, 100, 50) }
SavedRects ==
  { r \in SampleRects : \E s \in Screens : RectInv(r, s[1], s[2]) }
SavedValues == {NoValue} \cup { Stored(FormatGeometry(r)) : r \in SavedRects }

\* A stored value that is not four comma-separated integers: the store is a
\* file or registry key outside the program.
MalformedValues == { Stored(<<"1", "0", "0", ",", "1", "0", "0", ",", "x">>) }
StoredValues == SavedValues \cup MalformedValues

\* Texts pytesseract.image_to_string returns, and translations of the service.
Texts ==
  { <<>>, <<" ", "\n", "\f">>, <<"H", "i">>, <<" ", "H", "i", "\n">>,
    <<"H", "e", "l", "l", "o">> }
Translations == { "ni hao", "zai jian" }

VARIABLES
  screen_width, screen_height, \* Overlay.screen_width, Overlay.screen_height
  settings,                    \* the QSettings store, one value per key
  selection_box,               \* Overlay.selection_box
  translation_box,             \* Overlay.translation_box
  translated_text,             \* Overlay.translated_text
  running,                     \* Overlay.running
  update_pending,              \* a paint event requested by QWidget.update()
  shown_text,                  \* the text the last paint drew in the translation box
  posted,                      \* queued update_translation calls of the UI thread
  ui_pc,                       \* where the UI thread is
  pc,                          \* where the capture thread is
  monitor,                     \* capture_and_translate: monitor
  text,                        \* capture_and_translate: text
  translated,                  \* capture_and_translate: translated
  submitted,                   \* the last text handed to translator.translate
  raised,                      \* the except clause ran in this iteration
  n_updates,                   \* calls of QWidget.update() made so far
  held,                        \* the rectangles the selection box has held
                               \* since the first read of this iteration
  n_late,                      \* results posted since running was set to False
  n_events,                    \* pointer events received so far
  n_iters                      \* loop iterations started so far

ui_vars == <<screen_width, screen_height, settings, selection_box,
             translation_box, translated_text, running, update_pending,
             shown_text, posted, ui_pc, n_updates, n_events>>
thread_vars == <<pc, monitor, text, translated, submitted, raised, n_iters>>
vars == <<screen_width, screen_height, settings, selection_box,
          translation_box, translated_text, running, update_pending,
          shown_text, posted, ui_pc, pc, monitor, text, translated, submitted,
          raised, n_updates, held, n_late, n_events, n_iters>>

(***************************************************************************)
(* Overlay.__init__: init_ui, init_translator, start_capture_thread.       *)
(***************************************************************************)
Init ==
  /\ \E s \in Screens : screen_width = s[1] /\ screen_height = s[2]
  /\ settings \in [selection_box_geometry : StoredValues,
                   translation_box_geometry : StoredValues]
  /\ LET sel == LoadGeometry(settings.selection_box_geometry,
                             default_selection_rect)
         tr == LoadGeometry(settings.translation_box_geometry,
                            default_translation_rect)
     IN  /\ selection_box = NewBox(sel.rect)
         /\ translation_box = NewBox(tr.rect)
         /\ ui_pc = IF sel.ok /\ tr.ok THEN "idle" ELSE "crashed"
         /\ pc = IF sel.ok /\ tr.ok THEN "check" ELSE "not_started"
         /\ running = (sel.ok /\ tr.ok)
  /\ translated_text = ""
  /\ update_pending = TRUE
  /\ shown_text = ""
  /\ posted = <<>>
  /\ monitor = [top |-> 0, left |-> 0, width |-> 0, height |-> 0]
  /\ text = <<>>
  /\ translated = ""
  /\ submitted = <<>>
  /\ raised = FALSE
  /\ n_updates = 0
  /\ held = {}
  /\ n_late = 0
  /\ n_events = 0
  /\ n_iters = 0

(***************************************************************************)
(* Pointer events of the widget (UI thread).                               *)
(***************************************************************************)
OnScreen(p) ==
  /\ 0 <= p.x /\ p.x < screen_width
  /\ 0 <= p.y /\ p.y < screen_height

\* Overlay.mousePressEvent: the boxes after the press
RoutePress_SelectionFirst(sel, tr, p) ==
  IF contains_point(sel, p) THEN <<mouse_press_event(sel, p), tr>>
  ELSE IF contains_point(tr, p) THEN <<sel, mouse_press_event(tr, p)>>
  ELSE <<sel, tr>>

RoutePress(sel, tr, p) ==
  IF contains_point(tr, p) THEN <<sel, mouse_press_event(tr, p)>>
  ELSE IF contains_point(sel, p) THEN <<mouse_press_event(sel, p), tr>>
  ELSE <<sel, tr>>

mousePressEvent(p) ==
  /\ ui_pc = "idle"
  /\ n_events < MaxEvents
  /\ OnScreen(p)
  /\ n_events' = n_events + 1
  /\ selection_box' = RoutePress(selection_box, translation_box, p)[1]
  /\ translation_box' = RoutePress(selection_box, translation_box, p)[2]
  /\ UNCHANGED <<screen_width, screen_height, settings, translated_text,
                 running, update_pending, shown_text, posted, ui_pc,
                 n_updates>>
  /\ UNCHANGED thread_vars
  /\ UNCHANGED <<held, n_late>>

\* Overlay.mouseMoveEvent: the boxes after the move, and whether update() ran
RouteMove_Both(sel, tr, p, sw, sh) ==
  [sel |-> mouse_move_event(sel, p, sw, sh).box,
   tr |-> mouse_move_event(tr, p, sw, sh).box,
   update |-> mouse_move_event(sel, p, sw, sh).consumed
              \/ mouse_move_event(tr, p, sw, sh).consumed]

RouteMove(sel, tr, p, sw, sh) ==
  IF (tr.dragging \/ tr.resizing) /\ mouse_move_event(tr, p, sw, sh).consumed
  THEN [sel |-> sel, tr |-> mouse_move_event(tr, p, sw, sh).box,
        update |-> TRUE]
  ELSE IF (sel.dragging \/ sel.resizing)
          /\ mouse_move_event(sel, p, sw, sh).consumed
  THEN [sel |-> mouse_move_event(sel, p, sw, sh).box, tr |-> tr,
        update |-> TRUE]
  ELSE [sel |-> sel, tr |-> tr, update |-> FALSE]

mouseMoveEvent(p) ==
  /\ ui_pc = "idle"
  /\ n_events < MaxEvents
  /\ n_events' = n_events + 1
  /\ LET m == RouteMove(selection_box, translation_box, p,
                        screen_width, screen_height)
     IN  /\ selection_box' = m.sel
         /\ translation_box' = m.tr
         /\ update_pending' = (update_pending \/ m.update)
         /\ n_updates' = IF m.update THEN n_updates + 1 ELSE n_updates
         /\ held' = IF pc \in {"read_left", "read_width", "read_height"}
                    THEN held \cup {m.sel.rect}
                    ELSE held
         /\ UNCHANGED n_late
  /\ UNCHANGED <<screen_width, screen_height, settings, translated_text,
                 running, shown_text, posted, ui_pc>>
  /\ UNCHANGED thread_vars

\* Overlay.mouseReleaseEvent
mouseReleaseEvent ==
  /\ ui_pc = "idle"
  /\ n_events < MaxEvents
  /\ n_events' = n_events + 1
  /\ selection_box' = mouse_release_event(selection_box)
  /\ translation_box' = mouse_release_event(translation_box)
  /\ UNCHANGED <<screen_width, screen_height, settings, translated_text,
                 running, update_pending, shown_text, posted, ui_pc,
                 n_updates>>
  /\ UNCHANGED thread_vars
  /\ UNCHANGED <<held, n_late>>

(***************************************************************************)
(* Painting and the queued slot (UI thread).                               *)
(***************************************************************************)
\* Overlay.paintEvent, first half: the painter is created and
\* selection_box.paint has drawn; the paint is in progress.
paintEvent_selection ==
  /\ ui_pc = "idle"
  /\ update_pending
  /\ update_pending' = FALSE
  /\ ui_pc' = "painting"
  /\ UNCHANGED <<screen_width, screen_height, settings, selection_box,
                 translation_box, translated_text, running, shown_text,
                 posted, n_updates, n_events>>
  /\ UNCHANGED thread_vars
  /\ UNCHANGED <<held, n_late>>

\* Overlay.paintEvent, second half: translation_box.paint draws
\* parent.translated_text and the handler returns.
paintEvent_translation ==
  /\ ui_pc = "painting"
  /\ shown_text' = translated_text
  /\ ui_pc' = "idle"
  /\ UNCHANGED <<screen_width, screen_height, settings, selection_box,
                 translation_box, translated_text, running, update_pending,
                 posted, n_updates, n_events>>
  /\ UNCHANGED thread_vars
  /\ UNCHANGED <<held, n_late>>

\* the queued call the event loop of the UI thread runs next, and the queue
\* it leaves: posted events are taken oldest first
TakeCall_Newest(queue) ==
  [arg |-> queue[Len(queue)], rest |-> SubSeq(queue, 1, Len(queue) - 1)]

TakeCall(queue) == [arg |-> Head(queue), rest |-> Tail(queue)]

\* the number of update() calls after update_translation has run
AfterUpdate_Twice(n) == n + 2

AfterUpdate(n) == n + 1

\* Overlay.update_translation, run by the event loop of the UI thread for the
\* oldest queued call.
update_translation ==
  /\ ui_pc = "idle"
  /\ posted # <<>>
  /\ translated_text' = TakeCall(posted).arg
  /\ posted' = TakeCall(posted).rest
  /\ update_pending' = TRUE
  /\ n_updates' = AfterUpdate(n_updates)
  /\ UNCHANGED <<screen_width, screen_height, settings, selection_box,
                 translation_box, running, shown_text, ui_pc, n_events>>
  /\ UNCHANGED thread_vars
  /\ UNCHANGED <<held, n_late>>

(***************************************************************************)
(* Overlay.closeEvent (UI thread).                                         *)
(***************************************************************************)
\* both geometries formatted and written with settings.setValue
closeEvent_save_StopsThread ==
  /\ ui_pc = "idle"
  /\ settings' =
       [selection_box_geometry |->
          Stored(FormatGeometry(selection_box.rect)),
        translation_box_geometry |->
          Stored(FormatGeometry(translation_box.rect))]
  /\ running' = FALSE
  /\ ui_pc' = "close_saved"
  /\ UNCHANGED <<screen_width, screen_height, selection_box, translation_box,
                 translated_text, update_pending, shown_text, posted,
                 n_updates, n_events, held, n_late>>
  /\ UNCHANGED thread_vars

closeEvent_save ==
  /\ ui_pc = "idle"
  /\ settings' =
       [selection_box_geometry |->
          Stored(FormatGeometry(selection_box.rect)),
        translation_box_geometry |->
          Stored(FormatGeometry(translation_box.rect))]
  /\ ui_pc' = "close_saved"
  /\ UNCHANGED <<screen_width, screen_height, selection_box, translation_box,
                 translated_text, running, update_pending, shown_text, posted,
                 n_updates, n_events>>
  /\ UNCHANGED thread_vars
  /\ UNCHANGED <<held, n_late>>

\* self.running = False
closeEvent_stop ==
  /\ ui_pc = "close_saved"
  /\ running' = FALSE
  /\ ui_pc' = "join"
  /\ UNCHANGED <<screen_width, screen_height, settings, selection_box,
                 translation_box, translated_text, update_pending, shown_text,
                 posted, n_updates, n_events>>
  /\ UNCHANGED thread_vars
  /\ UNCHANGED <<held, n_late>>

\* capture_thread.join() returns once the thread has ended
JoinReturns_NoWait(thread_pc) == TRUE

JoinReturns(thread_pc) == thread_pc = "done"

\* capture_thread.join() has returned; super().closeEvent(event)
closeEvent_join ==
  /\ ui_pc = "join"
  /\ JoinReturns(pc)
  /\ ui_pc' = "closed"
  /\ UNCHANGED <<screen_width, screen_height, settings, selection_box,
                 translation_box, translated_text, running, update_pending,
                 shown_text, posted, n_updates, n_events>>
  /\ UNCHANGED thread_vars
  /\ UNCHANGED <<held, n_late>>

\* main() run again after the window was closed: Overlay.__init__ with the
\* values closeEvent left in the store, on the screen of the new run.
Restart ==
  /\ ui_pc = "closed"
  /\ \E s \in Screens : screen_width' = s[1] /\ screen_height' = s[2]
  /\ LET sel == LoadGeometry(settings.selection_box_geometry,
                             default_selection_rect)
         tr == LoadGeometry(settings.translation_box_geometry,
                            default_translation_rect)
     IN  /\ selection_box' = NewBox(sel.rect)
         /\ translation_box' = NewBox(tr.rect)
         /\ ui_pc' = IF sel.ok /\ tr.ok THEN "idle" ELSE "crashed"
         /\ pc' = IF sel.ok /\ tr.ok THEN "check" ELSE "not_started"
         /\ running' = (sel.ok /\ tr.ok)
  /\ translated_text' = ""
  /\ update_pending' = TRUE
  /\ shown_text' = ""
  /\ posted' = <<>>
  /\ monitor' = [top |-> 0, left |-> 0, width |-> 0, height |-> 0]
  /\ text' = <<>>
  /\ translated' = ""
  /\ submitted' = <<>>
  /\ raised' = FALSE
  /\ held' = {}
  /\ n_late' = 0
  /\ UNCHANGED <<settings, n_updates, n_events, n_iters>>

(***************************************************************************)
(* Overlay.capture_and_translate (capture thread).                         *)
(***************************************************************************)
\* while self.running
LoopTest_IgnoresRunning ==
  /\ pc = "check"
  /\ n_iters < MaxIters
  /\ n_iters' = n_iters + 1
  /\ raised' = FALSE
  /\ pc' = "read_top"
  /\ UNCHANGED <<monitor, text, translated, submitted>>
  /\ UNCHANGED ui_vars
  /\ UNCHANGED <<held, n_late>>

LoopTest ==
  /\ pc = "check"
  /\ \/ /\ running
        /\ n_iters < MaxIters
        /\ n_iters' = n_iters + 1
        /\ raised' = FALSE
        /\ pc' = "read_top"
     \/ /\ ~running
        /\ pc' = "done"
        /\ UNCHANGED <<n_iters, raised>>
  /\ UNCHANGED <<monitor, text, translated, submitted>>
  /\ UNCHANGED ui_vars
  /\ UNCHANGED <<held, n_late>>

\* the four reads that build monitor, in the order of the dict display
ReadTop ==
  /\ pc = "read_top"
  /\ monitor' = [monitor EXCEPT !.top = selection_box.rect.y]
  /\ held' = {selection_box.rect}
  /\ UNCHANGED n_late
  /\ pc' = "read_left"
  /\ UNCHANGED <<text, translated, submitted, raised, n_iters>>
  /\ UNCHANGED ui_vars

ReadLeft ==
  /\ pc = "read_left"
  /\ monitor' = [monitor EXCEPT !.left = selection_box.rect.x]
  /\ pc' = "read_width"
  /\ UNCHANGED <<text, translated, submitted, raised, n_iters>>
  /\ UNCHANGED ui_vars
  /\ UNCHANGED <<held, n_late>>

ReadWidth ==
  /\ pc = "read_width"
  /\ monitor' = [monitor EXCEPT !.width = selection_box.rect.w]
  /\ pc' = "read_height"
  /\ UNCHANGED <<text, translated, submitted, raised, n_iters>>
  /\ UNCHANGED ui_vars
  /\ UNCHANGED <<held, n_late>>

ReadHeight ==
  /\ pc = "read_height"
  /\ monitor' = [monitor EXCEPT !.height = selection_box.rect.h]
  /\ pc' = "grab"
  /\ UNCHANGED <<text, translated, submitted, raised, n_iters>>
  /\ UNCHANGED ui_vars
  /\ UNCHANGED <<held, n_late>>

\* where the except clause of the loop body leaves the thread
ExceptPc_Exit == "done"

ExceptPc == "sleep"

\* sct.grab(monitor) and Image.frombytes: an image, or an exception
Grab ==
  /\ pc = "grab"
  /\ \/ pc' = "ocr" /\ UNCHANGED raised
     \/ pc' = ExceptPc /\ raised' = TRUE
  /\ UNCHANGED <<monitor, text, translated, submitted, n_iters>>
  /\ UNCHANGED ui_vars
  /\ UNCHANGED <<held, n_late>>

\* if text.strip(): where the thread goes with the recognized text
AfterOcr_Always(t) == "translate"

AfterOcr(t) == IF strip(t) # <<>> THEN "translate" ELSE "sleep"

\* pytesseract.image_to_string: a text, or an exception
Recognize ==
  /\ pc = "ocr"
  /\ \/ \E t \in Texts : text' = t /\ pc' = AfterOcr(t) /\ UNCHANGED raised
     \/ pc' = ExceptPc /\ raised' = TRUE /\ UNCHANGED text
  /\ UNCHANGED <<monitor, translated, submitted, n_iters>>
  /\ UNCHANGED ui_vars
  /\ UNCHANGED <<held, n_late>>

\* translator.translate(text, src='en', dest='zh-cn').text, or an exception
Translate ==
  /\ pc = "translate"
  /\ submitted' = text
  /\ \/ \E t \in Translations :
           translated' = t /\ pc' = "deliver" /\ UNCHANGED raised
     \/ pc' = ExceptPc /\ raised' = TRUE /\ UNCHANGED translated
  /\ UNCHANGED <<monitor, text, n_iters>>
  /\ UNCHANGED ui_vars
  /\ UNCHANGED <<held, n_late>>

\* QMetaObject.invokeMethod(self, "update_translation", Qt.QueuedConnection,
\* Q_ARG(str, translated)): the queue and translated_text after the call
Invoke_Direct(queue, current, result) ==
  [posted |-> queue, translated_text |-> result]

Invoke(queue, current, result) ==
  [posted |-> Append(queue, result), translated_text |-> current]

Deliver ==
  /\ pc = "deliver"
  /\ posted' = Invoke(posted, translated_text, translated).posted
  /\ translated_text' =
       Invoke(posted, translated_text, translated).translated_text
  /\ pc' = "sleep"
  /\ UNCHANGED <<monitor, text, translated, submitted, raised, n_iters>>
  /\ UNCHANGED <<screen_width, screen_height, settings, selection_box,
                 translation_box, running, update_pending, shown_text, ui_pc,
                 n_updates, n_events>>
  /\ n_late' = IF running THEN n_late ELSE n_late + 1
  /\ UNCHANGED held

\* time.sleep(0.2)
Sleep ==
  /\ pc = "sleep"
  /\ pc' = "check"
  /\ UNCHANGED <<monitor, text, translated, submitted, raised, n_iters>>
  /\ UNCHANGED ui_vars
  /\ UNCHANGED <<held, n_late>>

(***************************************************************************)
(* Specifications.                                                         *)
(***************************************************************************)
PointerEvent ==
  \/ \E p \in Points : mousePressEvent(p)
  \/ \E p \in Points : mouseMoveEvent(p)
  \/ mouseReleaseEvent

UIStep ==
  \/ PointerEvent
  \/ paintEvent_selection
  \/ paintEvent_translation
  \/ update_translation
  \/ closeEvent_save
  \/ closeEvent_stop
  \/ closeEvent_join

ThreadStep ==
  \/ LoopTest
  \/ ReadTop
  \/ ReadLeft
  \/ ReadWidth
  \/ ReadHeight
  \/ Grab
  \/ Recognize
  \/ Translate
  \/ Deliver
  \/ Sleep

Next == UIStep \/ ThreadStep \/ Restart

Spec == Init /\ [][Next]_vars

\* The UI thread handling pointer events only.
SpecBoxes == Init /\ [][PointerEvent]_vars

PipelineStep ==
  \/ ThreadStep
  \/ paintEvent_selection
  \/ paintEvent_translation
  \/ update_translation
  \/ closeEvent_save
  \/ closeEvent_stop
  \/ closeEvent_join

SpecPipeline == Init /\ [][PipelineStep]_vars

\* Runs of the program one after the other: pointer events, the window
\* closed, the program started again.  Of the capture thread only the loop
\* test is scheduled: the thread reads the boxes and writes neither the boxes
\* nor the store, and closeEvent returns once the loop test has seen running
\* false.
SessionStep ==
  \/ PointerEvent
  \/ closeEvent_save
  \/ closeEvent_stop
  \/ closeEvent_join
  \/ LoopTest
  \/ Restart

SpecSession == Init /\ [][SessionStep]_vars

\* The pointer events of the UI thread interleaved with the capture thread
\* up to its screen capture: the loop test, the four reads of the selection
\* rectangle, the capture and the sleep.
CaptureStep ==
  \/ PointerEvent
  \/ LoopTest
  \/ ReadTop
  \/ ReadLeft
  \/ ReadWidth
  \/ ReadHeight
  \/ Grab
  \/ Sleep

SpecCapture == Init /\ [][CaptureStep]_vars

(***************************************************************************)
(* Properties of the boxes and of the pointer routing.                     *)
(***************************************************************************)
TheBoxes == {"selection", "translation"}
BoxOf(name) == IF name = "selection" THEN selection_box ELSE translation_box
BoxOfNext(name) ==
  IF name = "selection" THEN selection_box' ELSE translation_box'

\* the box a pointer-move is applied to: "none" when both boxes are idle
MoveTarget ==
  IF ~Idle(translation_box) THEN "translation"
  ELSE IF ~Idle(selection_box) THEN "selection"
  ELSE "none"

\* C1: a pointer-move leaves every box that is dragging, and whose rectangle
\* satisfied the Rectangle invariant, at 0 <= x <= screen_width - width and
\* 0 <= y <= screen_height - height, the invariant holding again (so the
\* bounds hold after each move of a sequence); the default selection box dragged from
\* (150,150) to (-250,-250) on a 1920x1080 screen ends at (0,0).
C1_DragStaysOnScreen ==
  [][\A p \in Points : mouseMoveEvent(p) =>
       /\ \A b \in TheBoxes :
            (BoxOf(b).dragging
               /\ RectInv(BoxOf(b).rect, screen_width, screen_height))
            => /\ 0 <= BoxOfNext(b).rect.x
               /\ BoxOfNext(b).rect.x <= screen_width - BoxOfNext(b).rect.w
               /\ 0 <= BoxOfNext(b).rect.y
               /\ BoxOfNext(b).rect.y <= screen_height - BoxOfNext(b).rect.h
               /\ RectInv(BoxOfNext(b).rect, screen_width, screen_height)
       /\ (/\ screen_width = 1920 /\ screen_height = 1080
           /\ MoveTarget = "selection"
           /\ selection_box.dragging
           /\ selection_box.rect = default_selection_rect
           /\ selection_box.drag_start = Pt(150, 150)
           /\ p = Pt(-250, -250))
          => selection_box'.rect = QRect(0, 0, 300, 200)
     ]_vars

\* the default selection box, dragged from (150,150) by (-400,-400), at (0,0)
C1_Witness ==
  /\ screen_width = 1920 /\ screen_height = 1080
  /\ selection_box.dragging
  /\ selection_box.drag_start = Pt(-250, -250)
  /\ selection_box.rect = QRect(0, 0, 300, 200)
  /\ n_events = 2

\* C2: after a pointer-move applied to a box that is resizing, the box has
\* width >= 100, height >= 50, x + width <= screen_width and
\* y + height <= screen_height.
C2_ResizeKeepsMinimumAndScreen ==
  [][\A p \in Points : mouseMoveEvent(p) =>
       \A b \in TheBoxes :
         (MoveTarget = b /\ BoxOf(b).resizing /\ ~BoxOf(b).dragging)
         => /\ BoxOfNext(b).rect.w >= 100
            /\ BoxOfNext(b).rect.h >= 50
            /\ BoxOfNext(b).rect.x + BoxOfNext(b).rect.w <= screen_width
            /\ BoxOfNext(b).rect.y + BoxOfNext(b).rect.h <= screen_height
     ]_vars

\* the box a pointer-down at p is dispatched to
PressTarget(p) ==
  IF contains_point(translation_box, p) THEN "translation"
  ELSE IF contains_point(selection_box, p) THEN "selection"
  ELSE "none"

\* p lies in the last 10 pixel columns and the last 10 pixel rows of r
InCornerMargin(r, p) ==
  /\ right(r) - p.x \in 0..9
  /\ bottom(r) - p.y \in 0..9

\* C3: a pointer-down dispatched to an idle box makes it resizing where the
\* point is within the 10px margin of the bottom-right corner (also where it
\* is inside the rectangle, the corner test going first), dragging at any other
\* point inside, with drag_start set to the point; an idle box that does not
\* contain the point stays idle and keeps its anchor.
C3_PressSelectsMode ==
  [][\A p \in Points : mousePressEvent(p) =>
       \A b \in TheBoxes :
         Idle(BoxOf(b)) =>
           /\ (PressTarget(p) = b /\ InCornerMargin(BoxOf(b).rect, p))
              => /\ BoxOfNext(b).resizing /\ ~BoxOfNext(b).dragging
                 /\ BoxOfNext(b).drag_start = p
           /\ (PressTarget(p) = b /\ ~InCornerMargin(BoxOf(b).rect, p))
              => /\ BoxOfNext(b).dragging /\ ~BoxOfNext(b).resizing
                 /\ BoxOfNext(b).drag_start = p
           /\ ~contains(BoxOf(b).rect, p) => BoxOfNext(b) = BoxOf(b)
     ]_vars

\* the default selection box pressed in its resize corner, the default
\* translation box idle
C3_Witness ==
  /\ selection_box.rect = default_selection_rect
  /\ selection_box.resizing /\ ~selection_box.dragging
  /\ selection_box.drag_start = Pt(395, 295)
  /\ Idle(translation_box)
  /\ n_events = 1

\* C4: both boxes satisfy the Rectangle invariant in every state of the
\* running controller.
C4_BoxesWithinScreen ==
  ui_pc # "crashed" =>
    /\ RectInv(selection_box.rect, screen_width, screen_height)
    /\ RectInv(translation_box.rect, screen_width, screen_height)

\* C9: at most one of the two boxes is in a non-idle mode.
C9_AtMostOneBoxActive == Idle(selection_box) \/ Idle(translation_box)

\* C10: a pointer-down inside the translation box changes only the
\* translation box, also where the selection box contains the point; a
\* pointer-down inside the selection box only changes only the selection box;
\* a pointer-down inside neither changes neither.
C10_TranslationBoxFirst ==
  [][\A p \in Points : mousePressEvent(p) =>
       /\ contains(translation_box.rect, p)
          => /\ selection_box' = selection_box
             /\ ~Idle(translation_box')
             /\ translation_box'.drag_start = p
       /\ (~contains(translation_box.rect, p) /\ contains(selection_box.rect, p))
          => /\ translation_box' = translation_box
             /\ ~Idle(selection_box')
             /\ selection_box'.drag_start = p
       /\ (~contains(translation_box.rect, p) /\ ~contains(selection_box.rect, p))
          => /\ translation_box' = translation_box
             /\ selection_box' = selection_box
     ]_vars

\* a press at a point of both boxes, taken by the translation box alone
C10_Witness ==
  /\ contains(selection_box.rect, Pt(1919, 1079))
  /\ contains(translation_box.rect, Pt(1919, 1079))
  /\ translation_box.drag_start = Pt(1919, 1079)
  /\ ~Idle(translation_box)
  /\ Idle(selection_box)
  /\ selection_box.drag_start = Pt(0, 0)
  /\ n_events = 1

\* The capture thread scheduled fairly: every external call returns and the
\* thread keeps running while it has a step to take.
FairPipeline == SpecPipeline /\ WF_vars(ThreadStep)

(***************************************************************************)
(* Properties of the capture thread and of the hand-off to the UI thread.  *)
(***************************************************************************)
\* C5: an iteration whose recognized text is empty after strip() goes from
\* the recognition straight to the sleep: the thread is never at the
\* translation call or at the delivery with such a text, and the step that
\* recognizes it leaves the queue, translated_text and the text last
\* submitted to the translator as they were.
C5_EmptyTextSkipsTranslation ==
  /\ [](pc \in {"translate", "deliver"} => strip(text) # <<>>)
  /\ [][(pc = "ocr" /\ pc' # "ocr" /\ ~raised' /\ strip(text') = <<>>)
          => /\ pc' = "sleep"
             /\ posted' = posted
             /\ translated_text' = translated_text
             /\ submitted' = submitted
       ]_vars

\* an iteration that recognized a whitespace-only text, asleep, nothing queued
C5_Witness ==
  /\ pc = "sleep"
  /\ ~raised
  /\ text = <<" ", "\n", "\f">>
  /\ posted = <<>>
  /\ translated_text = ""
  /\ submitted = <<>>
  /\ n_iters = 1

\* C6: the step in which the capture, the recognition or the translation
\* raises leaves running, translated_text and the queue unchanged and takes
\* the thread to the sleep, from where it goes to the next loop test; the
\* rest of a failed iteration never reaches the delivery, and the thread ends
\* only with running false.
C6_FailedIterationContinues ==
  /\ [][(raised' /\ ~raised)
          => /\ pc \in {"grab", "ocr", "translate"}
             /\ pc' = "sleep"
             /\ running' = running
             /\ translated_text' = translated_text
             /\ posted' = posted
       ]_vars
  /\ [][(raised /\ pc = "sleep" /\ pc' # pc) => pc' = "check"]_vars
  /\ [](raised => pc \in {"sleep", "check", "done"})
  /\ [](pc = "done" => ~running)

\* the thread back at the loop test after an iteration in which the
\* translation raised, running still true
C6_Witness ==
  /\ raised
  /\ pc = "check"
  /\ running
  /\ submitted # <<>>
  /\ posted = <<>>
  /\ translated_text = ""
  /\ n_iters = 1

\* C7: translated_text changes only in a step of the UI thread that takes the
\* oldest queued call, with no paint in progress, and in no step of the
\* capture thread; the delivery step appends to the queue, leaves
\* translated_text alone, and is enabled whatever the UI thread is doing.
C7_TextChangesOnUIThreadOnly ==
  /\ [][translated_text' # translated_text
          => /\ ui_pc = "idle" /\ ui_pc' = "idle"
             /\ posted # <<>>
             /\ translated_text' = Head(posted)
             /\ posted' = Tail(posted)
             /\ UNCHANGED thread_vars
       ]_vars
  /\ [][(pc = "deliver" /\ pc' # pc)
          => /\ posted' = Append(posted, translated)
             /\ translated_text' = translated_text
             /\ ui_pc' = ui_pc
       ]_vars
  /\ [](pc = "deliver" => ENABLED Deliver)

\* a result queued while a paint is in progress, after an earlier result was
\* applied
C7_Witness ==
  /\ ui_pc = "painting"
  /\ posted # <<>>
  /\ translated_text # ""
  /\ pc = "sleep"

\* C8: once closeEvent has set running to false the capture thread reaches
\* its end; it ends only at the loop test, that is after a whole iteration;
\* closeEvent returns only when the thread has ended.
C8_ShutdownWaitsForIteration ==
  /\ (ui_pc = "join") ~> (pc = "done")
  /\ [][(pc' = "done" /\ pc # "done") => (pc = "check" /\ ~running)]_vars
  /\ [](ui_pc = "closed" => pc = "done")

\* running was set to false while an iteration was at the delivery
C8_WitnessMidFlight == ui_pc = "join" /\ ~running /\ pc = "deliver"

(***************************************************************************)
(* Properties of the pointer-up, of the delivery order and of the redraw.  *)
(***************************************************************************)
\* C11: a pointer-up leaves both boxes idle whatever their modes were and
\* changes neither rectangle nor anchor; with both boxes idle it changes no
\* box; a second pointer-up applied to its result gives that result again.
C11_ReleaseResetsBothBoxes ==
  [][mouseReleaseEvent =>
       /\ Idle(selection_box') /\ Idle(translation_box')
       /\ selection_box'.rect = selection_box.rect
       /\ translation_box'.rect = translation_box.rect
       /\ selection_box'.drag_start = selection_box.drag_start
       /\ translation_box'.drag_start = translation_box.drag_start
       /\ (Idle(selection_box) /\ Idle(translation_box))
          => /\ selection_box' = selection_box
             /\ translation_box' = translation_box
       /\ mouse_release_event(selection_box') = selection_box'
       /\ mouse_release_event(translation_box') = translation_box'
     ]_vars

\* both boxes idle after the translation box was pressed in its resize corner
\* and the pointer released
C11_Witness ==
  /\ Idle(selection_box) /\ Idle(translation_box)
  /\ translation_box.rect = default_translation_rect
  /\ translation_box.drag_start = Pt(715, 295)
  /\ n_events = 2

Last(q) == q[Len(q)]

\* C12: the UI thread takes the queued calls oldest first and the capture
\* thread appends its calls, so the newest of translated_text and the queued
\* results is the result delivered last; with the queue drained
\* translated_text is the result delivered last.
C12_LastDeliveryWins ==
  /\ [][update_translation
          => /\ translated_text' = Head(posted)
             /\ posted' = Tail(posted)]_vars
  /\ [][Deliver => posted' = Append(posted, translated)]_vars
  /\ []((pc # "deliver" /\ translated # "")
          => Last(<<translated_text>> \o posted) = translated)
  /\ []((pc # "deliver" /\ translated # "" /\ posted = <<>>)
          => translated_text = translated)

\* two results delivered and applied, the first one painted in between
C12_Witness ==
  /\ posted = <<>>
  /\ translated = "zai jian"
  /\ translated_text = "zai jian"
  /\ shown_text = "ni hao"
  /\ n_updates = 2
  /\ pc = "sleep"

\* C13: a successful translation takes the thread to the delivery, which
\* appends exactly its result to the queue and goes to sleep; the UI thread
\* processing a queued call sets translated_text to that result and calls
\* update() exactly once; no iteration delivers twice.  After one iteration
\* with a non-empty text and a successful translation, either the result is
\* the one queued call, or it is translated_text and update() was called once.
C13_OneDeliveryOneRedraw ==
  /\ [][(Translate /\ ~raised') => (pc' = "deliver" /\ posted' = posted)]_vars
  /\ [][Deliver => (posted' = Append(posted, translated) /\ pc' = "sleep")]_vars
  /\ [][update_translation
          => /\ translated_text' = Head(posted)
             /\ n_updates' = n_updates + 1
             /\ update_pending']_vars
  /\ [](Len(posted) + n_updates <= n_iters)
  /\ []((/\ n_iters = 1 /\ ~raised /\ strip(text) # <<>>
         /\ pc \in {"sleep", "check", "done"})
          => \/ /\ posted = <<translated>>
                /\ translated_text = ""
                /\ n_updates = 0
             \/ /\ posted = <<>>
                /\ translated_text = translated
                /\ n_updates = 1)

\* "Hello" recognized, "ni hao" returned, delivered and applied: one update()
C13_Witness ==
  /\ n_iters = 1
  /\ text = <<"H", "e", "l", "l", "o">>
  /\ submitted = text
  /\ translated = "ni hao"
  /\ translated_text = "ni hao"
  /\ posted = <<>>
  /\ n_updates = 1
  /\ pc = "sleep"

\* C18: a pointer-move with the translation box non-idle changes the
\* translation box only; else with the selection box non-idle it changes the
\* selection box only; in both cases the anchor of the box moved is the
\* pointer position and update() is called once; with both boxes idle no box
\* changes and update() is not called.  No pointer-move changes a mode.
C18_MoveChangesOneBox ==
  [][\A p \in Points : mouseMoveEvent(p) =>
       /\ MoveTarget = "translation"
          => /\ selection_box' = selection_box
             /\ translation_box'.drag_start = p
             /\ n_updates' = n_updates + 1
             /\ update_pending'
       /\ MoveTarget = "selection"
          => /\ translation_box' = translation_box
             /\ selection_box'.drag_start = p
             /\ n_updates' = n_updates + 1
             /\ update_pending'
       /\ MoveTarget = "none"
          => /\ selection_box' = selection_box
             /\ translation_box' = translation_box
             /\ n_updates' = n_updates
             /\ update_pending' = update_pending
       /\ \A b \in TheBoxes :
            /\ BoxOfNext(b).dragging = BoxOf(b).dragging
            /\ BoxOfNext(b).resizing = BoxOf(b).resizing
     ]_vars

\* both boxes dragging, one pointer-move: the translation box has moved, the
\* selection box is where it was
C18_Witness ==
  /\ selection_box.dragging /\ translation_box.dragging
  /\ selection_box.rect = default_selection_rect
  /\ selection_box.drag_start = Pt(150, 150)
  /\ translation_box.rect = QRect(970, 550, 300, 200)
  /\ translation_box.drag_start = Pt(1000, 600)
  /\ n_updates = 1
  /\ n_events = 3

(***************************************************************************)
(* Properties of the persisted geometry.                                   *)
(***************************************************************************)
\* a stored value init_ui cannot unpack into four integers
Malformed(v) ==
  /\ v.present
  /\ ~(/\ Len(split(v.text)) = 4
       /\ \A i \in 1..4 : IsIntStr(split(v.text)[i]))

\* C14: startup is not fatal with a malformed stored geometry: the controller
\* runs, the capture thread is started, and a box whose stored geometry is
\* malformed starts with its default rectangle.
C14_MalformedGeometryNotFatal ==
  /\ ui_pc # "crashed"
  /\ pc # "not_started"
  /\ (n_events = 0 /\ Malformed(settings.selection_box_geometry))
     => selection_box.rect = default_selection_rect
  /\ (n_events = 0 /\ Malformed(settings.translation_box_geometry))
     => translation_box.rect = default_translation_rect

\* C15: a run started after a shutdown has each box at the rectangle the box
\* had at that shutdown, whatever the screen of the new run; closeEvent stores
\* the rectangle as "left,top,width,height" (the default selection rectangle
\* as "100,100,300,200"); a box with no stored value starts at its default
\* rectangle.
C15_GeometryRoundTrip ==
  /\ [][Restart
          => /\ selection_box'.rect = selection_box.rect
             /\ translation_box'.rect = translation_box.rect
             /\ ui_pc' = "idle"]_vars
  /\ []((ui_pc = "close_saved"
         /\ selection_box.rect = default_selection_rect)
          => settings.selection_box_geometry =
               Stored(<<"1", "0", "0", ",", "1", "0", "0", ",",
                        "3", "0", "0", ",", "2", "0", "0">>))
  /\ []((n_events = 0 /\ ~settings.selection_box_geometry.present
         /\ ui_pc # "crashed")
          => selection_box.rect = default_selection_rect)
  /\ []((n_events = 0 /\ ~settings.translation_box_geometry.present
         /\ ui_pc # "crashed")
          => translation_box.rect = default_translation_rect)

\* a new run with the selection box where the previous run had dragged it
C15_Witness ==
  /\ ui_pc = "idle"
  /\ n_events = 2
  /\ selection_box = NewBox(QRect(0, 0, 300, 200))
  /\ settings.selection_box_geometry =
       Stored(<<"0", ",", "0", ",", "3", "0", "0", ",", "2", "0", "0">>)
  /\ translation_box = NewBox(default_translation_rect)

(***************************************************************************)
(* Properties of the capture region, of closeEvent and of the submitted    *)
(* text.                                                                   *)
(***************************************************************************)
\* the region handed to sct.grab, as a rectangle
MonitorRect == QRect(monitor.left, monitor.top, monitor.width, monitor.height)

\* C16: the region captured in an iteration is a rectangle the selection box
\* held at one moment of the iteration: all four fields come from the same
\* rectangle.
C16_MonitorIsSnapshot == (pc = "grab") => (MonitorRect \in held)

\* the store holding the geometries the two boxes have now
GeometriesPersisted ==
  /\ settings.selection_box_geometry =
       Stored(FormatGeometry(selection_box.rect))
  /\ settings.translation_box_geometry =
       Stored(FormatGeometry(translation_box.rect))

\* C17 as stated: running is set to false first, the geometries are persisted
\* then, then closeEvent waits for the capture thread, and the window is
\* closed last.
C17_StopThenPersistThenJoin ==
  /\ [][(settings' # settings) => ~running]_vars
  /\ [](ui_pc = "join" => (~running /\ GeometriesPersisted))
  /\ [][(ui_pc' = "closed" /\ ui_pc # "closed")
          => (ui_pc = "join" /\ pc = "done")]_vars

\* C17 amended: the geometries of both boxes are persisted first, with
\* running still true; running is set to false then, with the store already
\* holding both geometries; closeEvent waits for the capture thread then; the
\* window is closed only when the thread has ended.
C17_PersistThenStopThenJoin ==
  /\ [][(settings' # settings)
          => (running /\ running' /\ GeometriesPersisted')]_vars
  /\ [][(running /\ ~running')
          => (GeometriesPersisted /\ settings' = settings
              /\ ui_pc' = "join")]_vars
  /\ [](ui_pc = "join" => (~running /\ GeometriesPersisted))
  /\ [][(ui_pc' = "closed" /\ ui_pc # "closed")
          => (ui_pc = "join" /\ pc = "done")]_vars

\* the window closed after the selection box was dragged: the dragged
\* geometry stored, running false, the thread ended
C17_Witness ==
  /\ ui_pc = "closed"
  /\ ~running
  /\ pc = "done"
  /\ selection_box.rect = QRect(0, 0, 300, 200)
  /\ settings.selection_box_geometry =
       Stored(<<"0", ",", "0", ",", "3", "0", "0", ",", "2", "0", "0">>)

\* C19: the text handed to the translation service is the recognized text
\* with its leading and trailing whitespace removed.
C19_SubmittedTextIsStripped ==
  [][Translate => submitted' = strip(text)]_vars

\* C20: no box has its dragging and resizing flags both true.
C20_FlagsNeverBothTrue ==
  \A b \in TheBoxes : ~(BoxOf(b).dragging /\ BoxOf(b).resizing)

(***************************************************************************)
(* Properties of the loop test after running was set to False.             *)
(***************************************************************************)
\* C21: the capture thread reads running at the loop test only: with running
\* false no iteration starts and the thread ends at the loop test and nowhere
\* else, at most one result is posted to the UI thread after running was set
\* to false, and none once the thread has ended.
C21_AtMostOneLateResult ==
  /\ [][(n_iters' > n_iters) => (running /\ pc = "check")]_vars
  /\ [][(pc' = "done" /\ pc # "done") => (pc = "check" /\ ~running)]_vars
  /\ [](n_late <= 1)
  /\ [][(pc = "done")
          => (pc' = "done" /\ posted' = posted /\ n_late' = n_late)]_vars

\* the iteration in flight when running was set to False has posted its
\* result, and the thread has ended at the next loop test
C21_Witness ==
  /\ ~running
  /\ pc = "done"
  /\ n_late = 1
  /\ posted # <<>>
  /\ Last(posted) = translated
  /\ ui_pc = "closed"

====
